---- MODULE Spec2Model ----
(***************************************************************************)
(* The blog backend's request handlers (routes/blogs.js, routes/users.js)  *)
(* as a state machine over the document store.  Every await on the store   *)
(* is a point where another request may run, so a handler that reads a     *)
(* document and saves it later is two actions: the read (findById) and the *)
(* save.  A save writes what the handler changed on its in-memory copy:    *)
(* a scalar or a whole array it assigned is set to the handler's value, an  *)
(* element it pushed is appended to the stored array.  A save that         *)
(* assigned a whole array is conditional on the document's version (__v)   *)
(* being the one read; a push or an array assignment increments it.  A     *)
(* save of a document that is gone, or whose version moved, throws and the *)
(* handler's catch answers 500.                                            *)
(***************************************************************************)
EXTENDS Integers, Sequences, FiniteSets, TLC

(* ---------------------------- bounds ----------------------------------- *)
NumSlots == 2

NumUsers == 2

MaxPosts == 1

MaxViews == 2

MaxVersion == 3

MaxTime == 1

Slots == 1..NumSlots
Users == 1..NumUsers
PostIds == 1..MaxPosts

(* ------------------------ program constants ---------------------------- *)
MaxTitleLen == 200

DefaultPage == 1

DefaultLimit == 10

MinUsernameLen == 3

MaxUsernameLen == 20

MaxBioLen == 500

MaxCommentLen == 1000

(* ------------------------------ strings -------------------------------- *)
\* A string is a sequence of one-character strings.
Str(n, c) == [i \in 1..n |-> c]

Lower(c) == IF c = "A" THEN "a" ELSE IF c = "B" THEN "b" ELSE c

Range(s) == {s[i] : i \in 1..Len(s)}

\* new RegExp(needle, 'i').test(hay) for a needle of plain letters
RegexMatchI(hay, needle) ==
  \E i \in 0..(Len(hay) - Len(needle)) :
    \A j \in 1..Len(needle) : Lower(hay[i + j]) = Lower(needle[j])

(* ------------------------------- state --------------------------------- *)
VARIABLES blogs, users, nextId, now, reqs, lastResp

vars == <<blogs, users, nextId, now, reqs, lastResp>>

NoDoc == [none |-> TRUE]

NoBody == [none |-> TRUE]

IdleReq == [pc |-> "idle", kind |-> "none", user |-> 0, id |-> 0,
            body |-> NoBody, doc |-> NoDoc]

NoResp == [kind |-> "none", status |-> 0, out |-> NoDoc]

\* lastResp is the response sent in the last step, if that step sent one:
\* the status and the part of the JSON body the handler computes (the
\* echoed document is left out)
Resp(kind, status, user, id, out) ==
  [kind |-> kind, status |-> status, out |-> out]

Exists(id) == id \in DOMAIN blogs

Ann == <<"a", "n", "n">>

Bob == <<"b", "o", "b">>

Cat == <<"c", "a", "t">>

UserNames == <<Ann, Bob, Cat>>

InitUsers == [u \in Users |-> [username |-> UserNames[u], bio |-> <<>>, avatar |-> <<>>]]

Init ==
  /\ blogs = <<>>
  /\ users = InitUsers
  /\ nextId = 1
  /\ now = 0
  /\ reqs = [r \in Slots |-> IdleReq]
  /\ lastResp = NoResp

\* Date.now() moves on between requests
Tick ==
  /\ now < MaxTime
  /\ now' = now + 1
  /\ lastResp' = NoResp
  /\ UNCHANGED <<blogs, users, nextId, reqs>>

\* a new request takes the first free slot (the slots are interchangeable)
Free(r) == reqs[r].pc = "idle" /\ \A q \in Slots : q < r => reqs[q].pc # "idle"

respond(r, resp) ==
  /\ lastResp' = resp
  /\ reqs' = [reqs EXCEPT ![r] = IdleReq]

awaitAt(r, pc, kind, user, id, body, doc) ==
  /\ reqs' = [reqs EXCEPT ![r] = [pc |-> pc, kind |-> kind, user |-> user,
                                  id |-> id, body |-> body, doc |-> doc]]
  /\ lastResp' = NoResp

await(r, kind, user, id, body, doc) == awaitAt(r, "save", kind, user, id, body, doc)

Has(b, f) == f \in DOMAIN b

(* ----------------------- POST /api/blogs (create) ---------------------- *)
Arr(v) == [isArray |-> TRUE, v |-> v]

NotArr == [isArray |-> FALSE, v |-> <<>>]

CreateBodies ==
  { [title |-> <<"a">>, content |-> <<"x">>, tags |-> Arr(<< <<"b">> >>),
     featuredImage |-> <<"i">>],
    [content |-> <<"x">>],
    [title |-> <<"a">>, content |-> <<>>],
    [title |-> Str(MaxTitleLen + 1, "a"), content |-> <<"x">>],
    [title |-> <<"a">>, content |-> <<"x">>, tags |-> NotArr] }

ValidCreateBody(b) ==
  /\ Has(b, "title") /\ Len(b.title) > 0 /\ Len(b.title) <= MaxTitleLen
  /\ Has(b, "content") /\ Len(b.content) > 0
  /\ Has(b, "tags") => b.tags.isArray

\* new Blog({...}) with the schema's defaults for what the handler leaves out
NewBlog(b, u) ==
  [title |-> b.title,
   content |-> b.content,
   tags |-> IF Has(b, "tags") THEN b.tags.v ELSE <<>>,
   featuredImage |-> IF Has(b, "featuredImage") THEN b.featuredImage ELSE <<>>,
   published |-> IF Has(b, "published") THEN b.published ELSE FALSE,
   author |-> u,
   views |-> 0,
   likes |-> <<>>,
   comments |-> <<>>,
   createdAt |-> now,
   v |-> 0]

CreateBlog(u, b, cap) ==
  /\ IF ~ValidCreateBody(b)
       THEN /\ lastResp' = Resp("create", 400, u, 0, NoDoc)
            /\ UNCHANGED <<blogs, nextId>>
       ELSE /\ nextId <= cap
            /\ blogs' = blogs @@ (nextId :> NewBlog(b, u))
            /\ nextId' = nextId + 1
            /\ lastResp' = Resp("create", 201, u, nextId, NoDoc)
  /\ UNCHANGED <<now, reqs, users>>

(* -------------------------- GET /api/blogs/:id ------------------------- *)
IncViewsTwice(doc) == [doc EXCEPT !.views = @ + 2]

IncViews(doc) == [doc EXCEPT !.views = @ + 1]

GetRead(r, id) ==
  /\ Free(r)
  /\ IF ~Exists(id)
       THEN respond(r, Resp("get", 404, 0, id, NoDoc))
       ELSE /\ blogs[id].views < MaxViews
            /\ await(r, "get", 0, id, NoBody, [views |-> blogs[id].views])
  /\ UNCHANGED <<blogs, nextId, now, users>>

\* blog.views += 1; await blog.save()  -- sets views to the value computed
\* from the copy read
GetSave(r) ==
  /\ reqs[r].pc = "save" /\ reqs[r].kind = "get"
  /\ LET q == reqs[r]
         doc == IncViews(q.doc)
     IN IF Exists(q.id)
          THEN /\ blogs' = [blogs EXCEPT ![q.id].views = doc.views]
               /\ respond(r, Resp("get", 200, 0, q.id, NoDoc))
          ELSE /\ UNCHANGED blogs
               /\ respond(r, Resp("get", 500, 0, q.id, NoDoc))
  /\ UNCHANGED <<nextId, now, users>>

(* ----------------------- POST /api/blogs/:id/like ---------------------- *)
IsLiked(doc, u) == u \in Range(doc.likes)

UnlikeAll(likes, u) == <<>>

Unlike(likes, u) == SelectSeq(likes, LAMBDA x : x # u)

\* the handler's copy of likes after its if/else
Toggle(likes, u) ==
  IF u \in Range(likes) THEN Unlike(likes, u) ELSE Append(likes, u)

LikeRead(r, u, id) ==
  /\ Free(r)
  /\ IF ~Exists(id)
       THEN respond(r, Resp("like", 404, u, id, NoDoc))
       ELSE /\ blogs[id].v < MaxVersion
            /\ await(r, "like", u, id, NoBody, [likes |-> blogs[id].likes, v |-> blogs[id].v])
  /\ UNCHANGED <<blogs, nextId, now, users>>

\* unlike: blog.likes = filtered array, saved as a whole under the version
\* read; like: blog.likes.push(id), saved as an append to the stored array
LikeSave(r) ==
  /\ reqs[r].pc = "save" /\ reqs[r].kind = "like"
  /\ LET q == reqs[r]
         wasLiked == IsLiked(q.doc, q.user)
         mine == Toggle(q.doc.likes, q.user)
         ok == Exists(q.id) /\ (wasLiked => blogs[q.id].v = q.doc.v)
     IN IF ok
          THEN /\ blogs' = [blogs EXCEPT
                             ![q.id].likes = IF wasLiked THEN mine
                                                         ELSE Append(@, q.user),
                             ![q.id].v = @ + 1]
               /\ respond(r, Resp("like", 200, q.user, q.id,
                                  [likes |-> Len(mine), isLiked |-> ~wasLiked]))
          ELSE /\ UNCHANGED blogs
               /\ respond(r, Resp("like", 500, q.user, q.id, NoDoc))
  /\ UNCHANGED <<nextId, now, users>>

(* --------------------- POST /api/blogs/:id/comments -------------------- *)
CommentBodies ==
  { [content |-> <<"c">>],
    [content |-> <<>>],
    [none |-> TRUE],
    [content |-> Str(MaxCommentLen + 1, "c")] }

ValidCommentBody(b) ==
  Has(b, "content") /\ Len(b.content) > 0 /\ Len(b.content) <= MaxCommentLen

NewCommentByFirst(u, b) == [user |-> 1, content |-> b.content]

NewComment(u, b) == [user |-> u, content |-> b.content]

CommentCheck(id, b) ==
  IF ~ValidCommentBody(b) THEN 400
  ELSE IF ~Exists(id) THEN 404
  ELSE 0

CommentRead(r, u, id, b) ==
  /\ Free(r)
  /\ IF CommentCheck(id, b) # 0
       THEN respond(r, Resp("comment", CommentCheck(id, b), u, id, NoDoc))
       ELSE /\ blogs[id].v < MaxVersion
            /\ await(r, "comment", u, id, b, [comments |-> blogs[id].comments])
  /\ UNCHANGED <<blogs, nextId, now, users>>

\* blog.comments.push(comment); await blog.save()  -- an append to the
\* stored array; the response is the last comment of the handler's copy
CommentSave(r) ==
  /\ reqs[r].pc = "save" /\ reqs[r].kind = "comment"
  /\ LET q == reqs[r]
         mine == Append(q.doc.comments, NewComment(q.user, q.body))
     IN IF Exists(q.id)
          THEN /\ blogs' = [blogs EXCEPT
                             ![q.id].comments = Append(@, NewComment(q.user, q.body)),
                             ![q.id].v = @ + 1]
               /\ respond(r, Resp("comment", 201, q.user, q.id, mine[Len(mine)]))
          ELSE /\ UNCHANGED blogs
               /\ respond(r, Resp("comment", 500, q.user, q.id, NoDoc))
  /\ UNCHANGED <<nextId, now, users>>

(* -------------------------- PUT /api/blogs/:id ------------------------- *)
PutFields == {"title", "content", "tags", "featuredImage", "published"}

PutBodies ==
  { [published |-> TRUE],
    [title |-> <<"b">>, tags |-> Arr(<<>>), featuredImage |-> <<>>],
    [title |-> <<"a">>, published |-> TRUE],
    [title |-> <<"b">>, published |-> FALSE],
    [none |-> TRUE],
    [title |-> <<>>],
    [content |-> <<>>],
    [title |-> Str(MaxTitleLen + 1, "a")],
    [tags |-> NotArr] }

ValidPutBody(b) ==
  /\ Has(b, "title") => Len(b.title) <= MaxTitleLen
  /\ Has(b, "content") => Len(b.content) > 0
  /\ Has(b, "tags") => b.tags.isArray

IsAuthorAnyone(doc, u) == TRUE

IsAuthor(doc, u) == doc.author = u

PutCheckExistenceFirst(u, id, b) ==
  IF ~Exists(id) THEN 404
  ELSE IF ~ValidPutBody(b) THEN 400
  ELSE IF ~IsAuthor(blogs[id], u) THEN 403
  ELSE 0

PutCheck(u, id, b) ==
  IF ~ValidPutBody(b) THEN 400
  ELSE IF ~Exists(id) THEN 404
  ELSE IF ~IsAuthor(blogs[id], u) THEN 403
  ELSE 0

BodyVal(b, f) == IF f = "tags" THEN b.tags.v ELSE b[f]

\* if (x !== undefined) blog.x = x, for the five fields
Present(b) == {f \in PutFields : Has(b, f)}

\* the paths the assignments changed on the handler's copy: what save() writes
Modified(b, doc) == {f \in Present(b) : BodyVal(b, f) # doc[f]}

ApplyFields(doc, b, fs) ==
  [k \in DOMAIN doc |-> IF k \in fs THEN BodyVal(b, k) ELSE doc[k]]

\* the Blog schema's validators, run by save() on the modified paths
SchemaValid(doc, fs) ==
  /\ "title" \in fs => (Len(doc.title) > 0 /\ Len(doc.title) <= MaxTitleLen)
  /\ "content" \in fs => Len(doc.content) > 0

\* the fields of the document read that the handler goes on to use
PutCopy(doc) == [k \in PutFields \cup {"v"} |-> doc[k]]

PutRead(r, u, id, b) ==
  /\ Free(r)
  /\ IF PutCheck(u, id, b) # 0
       THEN respond(r, Resp("put", PutCheck(u, id, b), u, id, NoDoc))
       ELSE /\ blogs[id].v < MaxVersion
            /\ await(r, "put", u, id, b, PutCopy(blogs[id]))
  /\ UNCHANGED <<blogs, nextId, now, users>>

PutStore(stored, b, fs) ==
  [ApplyFields(stored, b, fs) EXCEPT !.v = IF "tags" \in fs THEN @ + 1 ELSE @]

\* save() with nothing modified writes nothing; whether it then finds out
\* that the document is gone (and throws) depends on the library's version
PutSave(r) ==
  /\ reqs[r].pc = "save" /\ reqs[r].kind = "put"
  /\ LET q == reqs[r]
         fs == Modified(q.body, q.doc)
         mine == ApplyFields(q.doc, q.body, Present(q.body))
         ok == /\ SchemaValid(mine, fs)
               /\ Exists(q.id)
               /\ "tags" \in fs => blogs[q.id].v = q.doc.v
     IN IF fs = {}
          THEN /\ UNCHANGED blogs
               /\ \/ respond(r, Resp("put", 200, q.user, q.id, NoDoc))
                  \/ /\ ~Exists(q.id)
                     /\ respond(r, Resp("put", 500, q.user, q.id, NoDoc))
          ELSE IF ok
          THEN /\ blogs' = [blogs EXCEPT ![q.id] = PutStore(@, q.body, fs)]
               /\ respond(r, Resp("put", 200, q.user, q.id, NoDoc))
          ELSE /\ UNCHANGED blogs
               /\ respond(r, Resp("put", 500, q.user, q.id, NoDoc))
  /\ UNCHANGED <<nextId, now, users>>

(* ------------------------ DELETE /api/blogs/:id ------------------------ *)
DeleteCheck(u, id) ==
  IF ~Exists(id) THEN 404
  ELSE IF ~IsAuthor(blogs[id], u) THEN 403
  ELSE 0

DeleteRead(r, u, id) ==
  /\ Free(r)
  /\ IF DeleteCheck(u, id) # 0
       THEN respond(r, Resp("delete", DeleteCheck(u, id), u, id, NoDoc))
       ELSE await(r, "delete", u, id, NoBody, NoDoc)
  /\ UNCHANGED <<blogs, nextId, now, users>>

RemoveNothing(store, id) == store

Remove(store, id) == [p \in DOMAIN store \ {id} |-> store[p]]

\* await Blog.findByIdAndDelete(id): no error when the document is already gone
DeleteDo(r) ==
  /\ reqs[r].pc = "save" /\ reqs[r].kind = "delete"
  /\ blogs' = Remove(blogs, reqs[r].id)
  /\ respond(r, Resp("delete", 200, reqs[r].user, reqs[r].id, NoDoc))
  /\ UNCHANGED <<nextId, now, users>>

(* ------------- GET /api/blogs and GET /api/users/my-blogs -------------- *)
\* parseInt(req.query.x) || dflt : a missing, non-numeric or zero value
\* gives the default
QueryInt(p, f, dflt) == IF Has(p, f) /\ p[f] # 0 THEN p[f] ELSE dflt

\* req.query.x || '' used as a condition: set and not empty
Given(p, f) == Has(p, f) /\ p[f] # <<>>

AnyTag(doc, pat) == \E i \in 1..Len(doc.tags) : RegexMatchI(doc.tags[i], pat)

PublicQueryAll(doc, p) == Has(p, "author") => doc.author = p.author

\* the filter of the public list
PublicQuery(doc, p) ==
  /\ doc.published = TRUE
  /\ Given(p, "search") =>
       \/ RegexMatchI(doc.title, p.search)
       \/ RegexMatchI(doc.content, p.search)
       \/ AnyTag(doc, p.search)
  /\ Given(p, "tag") => AnyTag(doc, p.tag)
  /\ Has(p, "author") => doc.author = p.author

\* the filter of my-blogs: published is compared with the string 'true'
MyQuery(doc, u, p) ==
  /\ doc.author = u
  /\ Has(p, "published") => doc.published = (p.published = "true")

Query(kind, doc, u, p) ==
  IF kind = "list" THEN PublicQuery(doc, p) ELSE MyQuery(doc, u, p)

Matching(kind, u, p) == {id \in DOMAIN blogs : Query(kind, blogs[id], u, p)}

\* .sort({ createdAt: -1 }): the orders the store may return the set S in;
\* documents with equal createdAt come in any order, chosen per query
SortedOrders(S) ==
  {o \in [1..Cardinality(S) -> S] :
     /\ \A i, j \in 1..Cardinality(S) : i # j => o[i] # o[j]
     /\ \A i, j \in 1..Cardinality(S) :
          i < j => blogs[o[i]].createdAt >= blogs[o[j]].createdAt}

Min(a, b) == IF a < b THEN a ELSE b

\* .skip((page - 1) * limit).limit(limit)
PageOf(o, page, limit) ==
  SubSeq(o, (page - 1) * limit + 1, Min(page * limit, Len(o)))

FloorDiv(total, limit) == total \div limit

\* Math.ceil(total / limit)
CeilDiv(total, limit) == (total + limit - 1) \div limit

Pagination(page, limit, total) ==
  [currentPage |-> page,
   totalPages |-> CeilDiv(total, limit),
   totalBlogs |-> total,
   hasNext |-> page < CeilDiv(total, limit),
   hasPrev |-> page > 1]

ListQueries ==
  { [page |-> 1, limit |-> 1],
    [page |-> 2, limit |-> 1, search |-> <<>>],
    [page |-> 0, limit |-> 2, search |-> <<"b">>],
    [limit |-> 0, tag |-> <<"B">>, author |-> 1] }

MyQueries ==
  { [page |-> 2, limit |-> 1],
    [limit |-> 1, published |-> "true"],
    [published |-> "1"] }

\* await Blog.find(query).sort(...).skip(skip).limit(limit)
ListFind(r, kind, u, p) ==
  /\ Free(r)
  /\ \E o \in SortedOrders(Matching(kind, u, p)) :
       await(r, kind, u, 0, p,
             [blogs |-> PageOf(o, QueryInt(p, "page", DefaultPage),
                                  QueryInt(p, "limit", DefaultLimit))])
  /\ UNCHANGED <<blogs, nextId, now, users>>

\* await Blog.countDocuments(query); res.json({ blogs, pagination })
ListCount(r) ==
  /\ reqs[r].pc = "save" /\ reqs[r].kind \in {"list", "mine"}
  /\ LET q == reqs[r]
     IN respond(r, Resp(q.kind, 200, q.user, 0,
                        [blogs |-> q.doc.blogs,
                         pagination |->
                           Pagination(QueryInt(q.body, "page", DefaultPage),
                                      QueryInt(q.body, "limit", DefaultLimit),
                                      Cardinality(Matching(q.kind, q.user, q.body)))]))
  /\ UNCHANGED <<blogs, nextId, now, users>>

(* ------------------------ PUT /api/users/profile ----------------------- *)
Letters == {"a", "b", "c", "n", "o", "t", "i", "A", "B"}

\* /^[a-zA-Z0-9_]+$/
WordChars == Letters \cup {"_", "0", "1"}

\* isURL() on a bare host name: labels of letters and a top-level label of
\* two letters or more
IsURL(s) ==
  \E i \in 2..(Len(s) - 2) :
    /\ s[i] = "."
    /\ \A j \in 1..Len(s) : j # i => s[j] \in Letters

ValidProfileBody(b) ==
  /\ Has(b, "username") =>
       /\ Len(b.username) >= MinUsernameLen /\ Len(b.username) <= MaxUsernameLen
       /\ Len(b.username) > 0 /\ Range(b.username) \subseteq WordChars
  /\ Has(b, "bio") => Len(b.bio) <= MaxBioLen
  /\ Has(b, "avatar") => IsURL(b.avatar)

ProfileFields == {"username", "bio", "avatar"}

\* if (username && username !== user.username)
ChangesName(b, user) ==
  Has(b, "username") /\ b.username # <<>> /\ b.username # user.username

ProfileCheck(u, b) ==
  IF ~ValidProfileBody(b) THEN 400
  ELSE IF u \notin DOMAIN users THEN 404
  ELSE 0

ProfileRead(r, u, b) ==
  /\ Free(r)
  /\ IF ProfileCheck(u, b) # 0
       THEN respond(r, Resp("profile", ProfileCheck(u, b), u, 0, NoDoc))
       ELSE awaitAt(r, IF ChangesName(b, users[u]) THEN "check" ELSE "save",
                    "profile", u, 0, b, users[u])
  /\ UNCHANGED <<blogs, nextId, now, users>>

NameTakenNever(name) == FALSE

\* const existingUser = await User.findOne({ username })
NameTaken(name) == \E v \in DOMAIN users : users[v].username = name

ProfileLookup(r) ==
  /\ reqs[r].pc = "check" /\ reqs[r].kind = "profile"
  /\ IF NameTaken(reqs[r].body.username)
       THEN respond(r, Resp("profile", 400, reqs[r].user, 0, NoDoc))
       ELSE /\ reqs' = [reqs EXCEPT ![r].pc = "save"]
            /\ lastResp' = NoResp
  /\ UNCHANGED <<blogs, nextId, now, users>>

\* the unique index on username: the store refuses a write that would give
\* two users one name
UniqueIndexOk(u, name) == \A v \in DOMAIN users : v # u => users[v].username # name

\* if (x !== undefined) user.x = x; await user.save()
ProfileSave(r) ==
  /\ reqs[r].pc = "save" /\ reqs[r].kind = "profile"
  /\ LET q == reqs[r]
         fs == {f \in ProfileFields : Has(q.body, f) /\ q.body[f] # q.doc[f]}
         ok == "username" \in fs => UniqueIndexOk(q.user, q.body.username)
     IN IF ok
          THEN /\ users' = [users EXCEPT ![q.user] =
                              [k \in DOMAIN @ |-> IF k \in fs THEN q.body[k] ELSE @[k]]]
               /\ respond(r, Resp("profile", 200, q.user, 0,
                                  [k \in ProfileFields |->
                                     IF Has(q.body, k) THEN q.body[k] ELSE q.doc[k]]))
          ELSE /\ UNCHANGED users
               /\ respond(r, Resp("profile", 500, q.user, 0, NoDoc))
  /\ UNCHANGED <<blogs, nextId, now>>

(* --------------------------- specifications --------------------------- *)
\* the bodies of the updates that run beside views and comments
BlogPutBodies ==
  { [title |-> <<"b">>, tags |-> Arr(<<>>), featuredImage |-> <<>>],
    [published |-> TRUE],
    [none |-> TRUE],
    [title |-> <<>>],
    [content |-> <<>>] }

\* the handlers of one post but the like toggle: create, read, comment,
\* update, delete
Next ==
  \/ \E u \in Users, b \in CreateBodies : CreateBlog(u, b, MaxPosts)
  \/ \E r \in Slots, id \in PostIds : GetRead(r, id)
  \/ \E r \in Slots : GetSave(r)
  \/ \E r \in Slots, u \in Users, id \in PostIds, b \in CommentBodies :
       CommentRead(r, u, id, b)
  \/ \E r \in Slots : CommentSave(r)
  \/ \E r \in Slots, u \in Users, id \in PostIds, b \in BlogPutBodies :
       PutRead(r, u, id, b)
  \/ \E r \in Slots : PutSave(r)
  \/ \E r \in Slots, u \in Users, id \in PostIds : DeleteRead(r, u, id)
  \/ \E r \in Slots : DeleteDo(r)

Spec == Init /\ [][Next]_vars

\* the like toggle, with reads, comments and deletes of the post
NextLike ==
  \/ \E u \in Users, b \in CreateBodies : CreateBlog(u, b, MaxPosts)
  \/ \E r \in Slots, id \in PostIds : GetRead(r, id)
  \/ \E r \in Slots : GetSave(r)
  \/ \E r \in Slots, u \in Users, id \in PostIds : LikeRead(r, u, id)
  \/ \E r \in Slots : LikeSave(r)
  \/ \E r \in Slots, u \in Users, id \in PostIds, b \in CommentBodies :
       CommentRead(r, u, id, b)
  \/ \E r \in Slots : CommentSave(r)
  \/ \E r \in Slots, u \in Users, id \in PostIds : DeleteRead(r, u, id)
  \/ \E r \in Slots : DeleteDo(r)

SpecLike == Init /\ [][NextLike]_vars

\* the update and delete handlers alone, on every update body
NextOwner ==
  \/ \E u \in Users, b \in CreateBodies : CreateBlog(u, b, MaxPosts)
  \/ \E r \in Slots, u \in Users, id \in PostIds, b \in PutBodies :
       PutRead(r, u, id, b)
  \/ \E r \in Slots : PutSave(r)
  \/ \E r \in Slots, u \in Users, id \in PostIds : DeleteRead(r, u, id)
  \/ \E r \in Slots : DeleteDo(r)

SpecOwner == Init /\ [][NextOwner]_vars

\* every handler that changes the store, on few bodies; likes and comments
\* come from user 1
CheckPutBodies ==
  { [published |-> TRUE], [content |-> <<>>], [tags |-> NotArr, published |-> TRUE] }

CheckProfileBodies ==
  { [username |-> Cat, avatar |-> <<"a", ".", "i", "o">>],
    [username |-> <<"a", "n">>],
    [username |-> <<"c", "-", "a", "t">>],
    [bio |-> Str(MaxBioLen + 1, "b")],
    [avatar |-> <<"i", "o">>] }

NextChecks ==
  \/ \E u \in Users, b \in CreateBodies : CreateBlog(u, b, MaxPosts)
  \/ \E r \in Slots, u \in Users, id \in PostIds, b \in CheckPutBodies :
       PutRead(r, u, id, b)
  \/ \E r \in Slots : PutSave(r)
  \/ \E r \in Slots, u \in Users, id \in PostIds : DeleteRead(r, u, id)
  \/ \E r \in Slots : DeleteDo(r)
  \/ \E r \in Slots, id \in PostIds : LikeRead(r, 1, id)
  \/ \E r \in Slots : LikeSave(r)
  \/ \E r \in Slots, id \in PostIds, b \in CommentBodies : CommentRead(r, 1, id, b)
  \/ \E r \in Slots : CommentSave(r)
  \/ \E r \in Slots, u \in Users, b \in CheckProfileBodies : ProfileRead(r, u, b)
  \/ \E r \in Slots : ProfileLookup(r)
  \/ \E r \in Slots : ProfileSave(r)

SpecChecks == Init /\ [][NextChecks]_vars

\* the list endpoints, over the posts that create, update and delete leave
MaxListPosts == 2

ListIds == 1..MaxListPosts

ListCreateBodies ==
  { [title |-> <<"a">>, content |-> <<"x">>],
    [title |-> <<"A", "b">>, content |-> <<"x">>, tags |-> Arr(<< <<"b">> >>),
     published |-> TRUE] }

ListPutBodies == { [published |-> TRUE] }

NextList ==
  \/ Tick
  \/ \E u \in Users, b \in ListCreateBodies : CreateBlog(u, b, MaxListPosts)
  \/ \E r \in Slots, u \in Users, id \in ListIds, b \in ListPutBodies :
       PutRead(r, u, id, b)
  \/ \E r \in Slots : PutSave(r)
  \/ \E r \in Slots, u \in Users, id \in ListIds : DeleteRead(r, u, id)
  \/ \E r \in Slots : DeleteDo(r)
  \/ \E r \in Slots, p \in ListQueries : ListFind(r, "list", 0, p)
  \/ \E r \in Slots, u \in Users, p \in MyQueries : ListFind(r, "mine", u, p)
  \/ \E r \in Slots : ListCount(r)

SpecList == Init /\ [][NextList]_vars

\* the comments of one post beside reads, likes and updates of it
CommentPutBodies ==
  { [title |-> <<"b">>, tags |-> Arr(<<>>)], [published |-> TRUE] }

NextComment ==
  \/ \E u \in Users, b \in CreateBodies : CreateBlog(u, b, MaxPosts)
  \/ \E r \in Slots, id \in PostIds : GetRead(r, id)
  \/ \E r \in Slots : GetSave(r)
  \/ \E r \in Slots, u \in Users, id \in PostIds : LikeRead(r, u, id)
  \/ \E r \in Slots : LikeSave(r)
  \/ \E r \in Slots, u \in Users, id \in PostIds, b \in CommentBodies :
       CommentRead(r, u, id, b)
  \/ \E r \in Slots : CommentSave(r)
  \/ \E r \in Slots, u \in Users, id \in PostIds, b \in CommentPutBodies :
       PutRead(r, u, id, b)
  \/ \E r \in Slots : PutSave(r)

SpecComment == Init /\ [][NextComment]_vars

\* the profile updates of two users who ask for free and for held names
NameBodies ==
  { [username |-> Cat],
    [username |-> Cat, bio |-> <<"i">>],
    [username |-> Bob],
    [username |-> Ann, avatar |-> <<"a", ".", "i", "o">>],
    [username |-> <<"a", "n">>] }

NextProfile ==
  \/ \E r \in Slots, u \in Users, b \in NameBodies : ProfileRead(r, u, b)
  \/ \E r \in Slots : ProfileLookup(r)
  \/ \E r \in Slots : ProfileSave(r)

SpecProfile == Init /\ [][NextProfile]_vars

\* every handler of one post beside its deletion; likes and comments come
\* from user 1
DeletePutBodies == { [published |-> TRUE], [content |-> <<>>] }

DeleteCommentBodies == { [content |-> <<"c">>], [content |-> <<>>] }

NextDelete ==
  \/ \E u \in Users, b \in ListCreateBodies : CreateBlog(u, b, MaxPosts)
  \/ \E r \in Slots, id \in PostIds : GetRead(r, id)
  \/ \E r \in Slots : GetSave(r)
  \/ \E r \in Slots, id \in PostIds : LikeRead(r, 1, id)
  \/ \E r \in Slots : LikeSave(r)
  \/ \E r \in Slots, id \in PostIds, b \in DeleteCommentBodies :
       CommentRead(r, 1, id, b)
  \/ \E r \in Slots : CommentSave(r)
  \/ \E r \in Slots, u \in Users, id \in PostIds, b \in DeletePutBodies :
       PutRead(r, u, id, b)
  \/ \E r \in Slots : PutSave(r)
  \/ \E r \in Slots, u \in Users, id \in PostIds : DeleteRead(r, u, id)
  \/ \E r \in Slots : DeleteDo(r)

SpecDelete == Init /\ [][NextDelete]_vars

(* ======================= properties of the handlers ==================== *)
Distinct(s) == \A i, j \in 1..Len(s) : i # j => s[i] # s[j]

Busy(r, kind) == reqs[r].pc = "save" /\ reqs[r].kind = kind

Answered(kind, status) == lastResp'.kind = kind /\ lastResp'.status = status

\* what an update or delete request by u on id must meet at its first step:
\* 404 and no change for a missing post, 403 and no change for another
\* user's post, and for the author's own post no answer yet
OwnerGate(r, u, id, kind) ==
  /\ ~Exists(id) => Answered(kind, 404) /\ blogs' = blogs
  /\ Exists(id) /\ blogs[id].author # u => Answered(kind, 403) /\ blogs' = blogs
  /\ Exists(id) /\ blogs[id].author = u => Busy(r, kind)' /\ blogs' = blogs

\* a 200 to an update or delete goes to the author of the post
OwnerOnly200(r) ==
  (PutSave(r) \/ DeleteDo(r)) /\ lastResp'.status = 200 /\ Exists(reqs[r].id)
    => blogs[reqs[r].id].author = reqs[r].user

\* a step of a request of one of the kinds: it leaves such a request in
\* flight, or ends one, or answers one
Touches(kinds) ==
  \/ lastResp'.kind \in kinds
  \/ \E r \in Slots : reqs'[r] # reqs[r]
                      /\ (reqs'[r].kind \in kinds \/ reqs[r].kind \in kinds)

\* C1 (as stated): every PUT /:id and DELETE /:id by requester R on post P is
\* answered 403 when P exists and author(P) # R, 404 when P does not exist,
\* the store unchanged in both cases, and 200 goes to the author only.
C1_AsStated ==
  [][Touches({"put", "delete"}) => \A r \in Slots, u \in Users, id \in PostIds :
       /\ \A b \in PutBodies : PutRead(r, u, id, b) => OwnerGate(r, u, id, "put")
       /\ DeleteRead(r, u, id) => OwnerGate(r, u, id, "delete")
       /\ OwnerOnly200(r)]_vars

\* C1 (amended): every DELETE /:id, and every PUT /:id whose body passes
\* validation, by requester R on post P is answered 403 when P exists and
\* author(P) # R, 404 when P does not exist, the store unchanged in both
\* cases; a PUT whose body fails validation is answered 400 whoever sends
\* it and changes nothing; 200 goes to the author only.
C1_OwnerOnly ==
  [][Touches({"put", "delete"}) => \A r \in Slots, u \in Users, id \in PostIds :
       /\ \A b \in PutBodies :
            PutRead(r, u, id, b) =>
              IF ValidPutBody(b) THEN OwnerGate(r, u, id, "put")
              ELSE Answered("put", 400) /\ blogs' = blogs
       /\ DeleteRead(r, u, id) => OwnerGate(r, u, id, "delete")
       /\ OwnerOnly200(r)]_vars

\* a non-owner was refused on an existing post
C1_Witness ==
  /\ lastResp.kind \in {"put", "delete"} /\ lastResp.status = 403
  /\ Exists(1)

\* the answer the order validation, existence, ownership gives
Expect(valid, exists, owner) ==
  IF ~valid THEN 400 ELSE IF ~exists THEN 404 ELSE IF ~owner THEN 403 ELSE 0

\* the first step of a request: the store untouched, and either the answer
\* code, or no answer and the request in flight
Gate(r, kind, code) ==
  /\ blogs' = blogs /\ users' = users
  /\ IF code = 0
       THEN reqs'[r].kind = kind /\ reqs'[r].pc # "idle" /\ lastResp' = NoResp
       ELSE Answered(kind, code) /\ reqs' = reqs

\* a step that starts a request of this kind in slot r
Starts(r, kind) == Free(r) /\ (lastResp'.kind = kind \/ reqs'[r].kind = kind)

\* C2: update, delete, like, comment and profile update check validation
\* (400), then existence (404), then ownership (403, update and delete);
\* the first check that fails gives the answer, and a step that answers
\* 400, 403 or 404 leaves posts and users as they were.
C2_CheckOrder ==
  [][
      /\ lastResp'.status \in {400, 403, 404} => blogs' = blogs /\ users' = users
      /\ \A r \in Slots, u \in Users, id \in PostIds :
           /\ Starts(r, "put") =>
                \A b \in CheckPutBodies :
                  PutRead(r, u, id, b) =>
                    Gate(r, "put", Expect(ValidPutBody(b), Exists(id),
                                          Exists(id) /\ blogs[id].author = u))
           /\ Starts(r, "delete") /\ DeleteRead(r, u, id) =>
                Gate(r, "delete", Expect(TRUE, Exists(id),
                                         Exists(id) /\ blogs[id].author = u))
           /\ Starts(r, "like") /\ LikeRead(r, u, id) =>
                Gate(r, "like", Expect(TRUE, Exists(id), TRUE))
           /\ Starts(r, "comment") =>
                \A b \in CommentBodies :
                  CommentRead(r, u, id, b) =>
                    Gate(r, "comment", Expect(ValidCommentBody(b), Exists(id), TRUE))
           /\ Starts(r, "profile") =>
                \A b \in CheckProfileBodies :
                  ProfileRead(r, u, b) =>
                    Gate(r, "profile", Expect(ValidProfileBody(b),
                                              u \in DOMAIN users, TRUE))]_vars

\* an update with an invalid body for a post that does not exist was
\* answered 400: validation came before existence
C2_Witness ==
  lastResp.kind = "put" /\ lastResp.status = 400 /\ ~Exists(1) /\ nextId = 1

\* C3: a GET /:id that saves with no write to the post since its read
\* raises the stored views by exactly 1 and is answered 200; a GET on a
\* missing id is answered 404 and changes no post.
C3_ViewsPlusOne ==
  [][Touches({"get"}) => \A r \in Slots, id \in PostIds :
       /\ GetSave(r) /\ Exists(reqs[r].id)
            /\ blogs[reqs[r].id].views = reqs[r].doc.views
          => /\ blogs' = [blogs EXCEPT ![reqs[r].id].views = @ + 1]
             /\ Answered("get", 200)
       /\ GetRead(r, id) /\ ~Exists(id)
          => Answered("get", 404) /\ blogs' = blogs]_vars

\* two GETs one after the other have taken views from 0 to 2
C3_Witness ==
  /\ lastResp.kind = "get" /\ lastResp.status = 200
  /\ Exists(1) /\ blogs[1].views = 2
  /\ \A r \in Slots : reqs[r].pc = "idle"

\* C4: in every reachable state, likes(P) holds each user id at most once.
C4_LikesUnique == \A p \in DOMAIN blogs : Distinct(blogs[p].likes)

\* C5: a like toggle by U that saves with no write to the post since its
\* read is answered 200 with isLiked = U's membership after the toggle and
\* likes = the size of likes after the toggle, and a second toggle by U on
\* the result gives back the likes the first one started from, in membership
\* and in size.
C5_ToggleTwice ==
  [][Touches({"like"}) => \A r \in Slots :
       /\ LikeSave(r) /\ Exists(reqs[r].id)
       /\ blogs[reqs[r].id].likes = reqs[r].doc.likes
       /\ blogs[reqs[r].id].v = reqs[r].doc.v
       => LET L == blogs[reqs[r].id].likes
              L1 == blogs'[reqs[r].id].likes
              L2 == Toggle(L1, reqs[r].user)
          IN /\ Answered("like", 200)
             /\ lastResp'.out.isLiked = (reqs[r].user \in Range(L1))
             /\ lastResp'.out.likes = Len(L1)
             /\ Range(L2) = Range(L) /\ Len(L2) = Len(L)]_vars

\* C7: the stored views of a post never decreases from one state to the next.
C7_ViewsMonotonic ==
  [][\A p \in DOMAIN blogs \cap DOMAIN blogs' :
       blogs'[p].views >= blogs[p].views]_vars

\* C6: the posts a public list query finds are all published at the time
\* of the query, whatever its parameters, and are what the response
\* carries; a post created with published omitted is stored unpublished;
\* a post goes from unpublished to published only by the save of an
\* update by its author whose body has published = TRUE.
C6_PublishedOnly ==
  [][
      /\ \A r \in Slots :
          /\ Free(r) /\ Busy(r, "list")'
             => \A i \in 1..Len(reqs'[r].doc.blogs) :
                  /\ Exists(reqs'[r].doc.blogs[i])
                  /\ blogs[reqs'[r].doc.blogs[i]].published = TRUE
          /\ Busy(r, "list") /\ ListCount(r)
             => lastResp'.out.blogs = reqs[r].doc.blogs
      /\ \A u \in Users, b \in ListCreateBodies :
           CreateBlog(u, b, MaxListPosts) /\ ~Has(b, "published")
             => blogs'[nextId].published = FALSE
      /\ \A id \in DOMAIN blogs \cap DOMAIN blogs' :
           ~blogs[id].published /\ blogs'[id].published
             => \E r \in Slots :
                  /\ PutSave(r) /\ reqs[r].id = id
                  /\ reqs[r].user = blogs[id].author
                  /\ Has(reqs[r].body, "published")
                  /\ reqs[r].body.published = TRUE]_vars

\* the public list returned a post that was created with published omitted
C6_Witness ==
  /\ lastResp.kind = "list" /\ lastResp.status = 200
  /\ \E i \in 1..Len(lastResp.out.blogs) :
       /\ Exists(lastResp.out.blogs[i])
       /\ blogs[lastResp.out.blogs[i]].title = <<"a">>

\* C8: for a fixed filter and limit and a fixed store, whatever the store
\* returns for page 1 and for page 2 have no post in common.
C8_PagesDisjoint ==
  \A p \in ListQueries :
    \A o1, o2 \in SortedOrders(Matching("list", 0, p)) :
      LET limit == QueryInt(p, "limit", DefaultLimit)
      IN Range(PageOf(o1, 1, limit)) \cap Range(PageOf(o2, 2, limit)) = {}

\* C9: the pagination block of a list response has totalBlogs = the number
\* of posts matching the filter at the count, totalPages = the least n with
\* n * limit >= totalBlogs, hasNext = (page < totalPages) and
\* hasPrev = (page > 1); hasNext holds exactly when, on the store as
\* counted, page + 1 is not empty.
C9_Pagination ==
  [][\A r \in Slots :
       ListCount(r) =>
         LET q == reqs[r]
             page == QueryInt(q.body, "page", DefaultPage)
             limit == QueryInt(q.body, "limit", DefaultLimit)
             S == Matching(q.kind, q.user, q.body)
             pg == lastResp'.out.pagination
         IN /\ pg.currentPage = page
            /\ pg.totalBlogs = Cardinality(S)
            /\ pg.totalPages * limit >= pg.totalBlogs
            /\ (pg.totalPages - 1) * limit < pg.totalBlogs
            /\ pg.hasNext = (page < pg.totalPages)
            /\ pg.hasPrev = (page > 1)
            /\ pg.hasNext = (\A o \in SortedOrders(S) :
                               PageOf(o, page + 1, limit) # <<>>)]_vars

\* a first page of one post out of two matching: two pages, a next page
C9_Witness ==
  /\ lastResp.kind \in {"list", "mine"} /\ lastResp.status = 200
  /\ lastResp.out.pagination.totalPages = 2
  /\ lastResp.out.pagination.hasNext = TRUE
  /\ Len(lastResp.out.blogs) = 1

\* C10: a PUT /:id answered 200 leaves every field of the body at the value
\* given, every other field of the post at its previous value, and author,
\* views, likes and comments as they were; the author of a post is the same
\* in every state.
C10_PutFrame ==
  [][
      /\ \A r \in Slots :
          PutSave(r) /\ lastResp'.status = 200 /\ Exists(reqs[r].id)
            => /\ reqs[r].id \in DOMAIN blogs'
               /\ \A f \in PutFields :
                    blogs'[reqs[r].id][f] =
                      IF Has(reqs[r].body, f) THEN BodyVal(reqs[r].body, f)
                      ELSE blogs[reqs[r].id][f]
               /\ \A f \in {"author", "views", "likes", "comments"} :
                    blogs'[reqs[r].id][f] = blogs[reqs[r].id][f]
      /\ \A id \in DOMAIN blogs \cap DOMAIN blogs' :
           blogs'[id].author = blogs[id].author]_vars

IsPrefix(s, t) == Len(s) <= Len(t) /\ SubSeq(t, 1, Len(s)) = s

\* C11: in every step the comments of a post that stays in the store keep
\* their authors, contents and order (the old sequence is a prefix of the
\* new one); a POST /:id/comments answered 201 has added exactly one comment
\* at the end, with the requester as its author and the body's content, and
\* returns that comment; no comment request is refused for ownership.
C11_AppendOnly ==
  [][
      /\ \A id \in DOMAIN blogs \cap DOMAIN blogs' :
           IsPrefix(blogs[id].comments, blogs'[id].comments)
      /\ lastResp'.kind = "comment" => lastResp'.status # 403
      /\ \A r \in Slots :
           Busy(r, "comment") /\ CommentSave(r) /\ lastResp'.status = 201
             => LET c == [user |-> reqs[r].user, content |-> reqs[r].body.content]
                IN /\ blogs'[reqs[r].id].comments =
                        Append(blogs[reqs[r].id].comments, c)
                   /\ lastResp'.out = c]_vars

\* a user who is not the author has added the second comment of a post
\* that was also liked and updated
C11_Witness ==
  /\ lastResp.kind = "comment" /\ lastResp.status = 201
  /\ Exists(1) /\ Len(blogs[1].comments) = 2
  /\ blogs[1].comments[2].user # blogs[1].author
  /\ lastResp.out = blogs[1].comments[2]
  /\ blogs[1].likes # <<>> /\ blogs[1].published

UniqueNames(us) ==
  \A a, b \in DOMAIN us : a # b => us[a].username # us[b].username

Gone(id) == id < nextId /\ ~Exists(id)

\* a DELETE answered 200 leaves the post out of the store, and a post that
\* is gone stays gone whatever request saves afterwards
StaysGone ==
  /\ \A r \in Slots :
       Busy(r, "delete") /\ DeleteDo(r) /\ lastResp'.status = 200
         => reqs[r].id \notin DOMAIN blogs'
  /\ \A id \in PostIds : Gone(id) => ~Exists(id)'

\* C13 (as stated): after a DELETE /:id answered 200 the post is in the
\* store in no later state, whatever request that read it before saves
\* after, and every GET, PUT, DELETE, like or comment that starts on the id
\* afterwards is answered 404.
C13_AsStated ==
  [][
      /\ StaysGone
      /\ \A r \in Slots, u \in Users, id \in PostIds : Gone(id) =>
           /\ GetRead(r, id) => Answered("get", 404)
           /\ LikeRead(r, u, id) => Answered("like", 404)
           /\ DeleteRead(r, u, id) => Answered("delete", 404)
           /\ \A b \in DeletePutBodies :
                PutRead(r, u, id, b) => Answered("put", 404)
           /\ \A b \in DeleteCommentBodies :
                CommentRead(r, u, id, b) => Answered("comment", 404)]_vars

\* C13 (amended): after a DELETE /:id answered 200 the post is in the store
\* in no later state, whatever request that read it before saves after;
\* every GET, DELETE and like that starts on the id afterwards, and every
\* PUT and comment whose body passes validation, is answered 404; a PUT or
\* comment whose body fails validation is answered 400.
C13_DeletedStaysDeleted ==
  [][
      /\ StaysGone
      /\ \A r \in Slots, u \in Users, id \in PostIds : Gone(id) =>
           /\ GetRead(r, id) => Answered("get", 404)
           /\ LikeRead(r, u, id) => Answered("like", 404)
           /\ DeleteRead(r, u, id) => Answered("delete", 404)
           /\ \A b \in DeletePutBodies :
                PutRead(r, u, id, b) =>
                  Answered("put", IF ValidPutBody(b) THEN 404 ELSE 400)
           /\ \A b \in DeleteCommentBodies :
                CommentRead(r, u, id, b) =>
                  Answered("comment", IF ValidCommentBody(b) THEN 404 ELSE 400)]_vars

\* a request that read the post before its deletion saved after it: the
\* save was refused and the post is still gone
C13_Witness ==
  /\ lastResp.kind \in {"get", "like", "comment", "put"}
  /\ lastResp.status = 500
  /\ Gone(1)

\* how many times v is in likes
Count(likes, v) == Cardinality({i \in 1..Len(likes) : likes[i] = v})

\* C14: in every step, for every post that stays in the store and every
\* user V, the entries of V in likes(P) change only by the save of a like
\* toggle of V on P: a toggle by another user U, an unlike that overlaps a
\* toggle by V included, leaves V's membership as it was.
C14_OwnMembershipOnly ==
  [][\A id \in DOMAIN blogs \cap DOMAIN blogs', v \in Users :
       Count(blogs'[id].likes, v) # Count(blogs[id].likes, v)
         => \E r \in Slots :
              /\ Busy(r, "like") /\ reqs[r].user = v /\ reqs[r].id = id
              /\ LikeSave(r)]_vars

\* an unlike that overlapped a like toggle by the other user was refused:
\* both users are in likes
C14_Witness ==
  /\ lastResp.kind = "like" /\ lastResp.status = 500
  /\ Exists(1) /\ Range(blogs[1].likes) = Users /\ Distinct(blogs[1].likes)
  /\ blogs[1].comments = <<>>
====
